---------------------------- MODULE Spec2Model ----------------------------
(***************************************************************************)
(* The chunked, resumable, retrying fetch-transform-upload pipeline of     *)
(* src/infrastructure/copernicus_downloader.py (monthly time chunks, retry *)
(* helper, JSON download log) and src/infrastructure/noaa_downloader.py    *)
(* (one chunk per listed key, try/except per file, JSON checkpoint).       *)
(*                                                                         *)
(* Three specifications share the variables:                               *)
(*   SpecChunks  generate_chunks run step by step over bounded domains     *)
(*   SpecRetry   retry() run attempt by attempt over bounded operations    *)
(*   Spec        the two download loops, with crashes and restarts         *)
(***************************************************************************)
EXTENDS Integers, Sequences, FiniteSets, TLC

VARIABLES
    \* ---- generate_chunks (SpecChunks)
    genStart,       \* the start argument
    genEnd,         \* the end argument
    current,        \* the generator's local variable current
    yielded,        \* the sequence of <<start, end>> pairs yielded so far
    genPc,          \* "idle" | "running" | "exhausted"
    \* ---- retry (SpecRetry)
    rMax,           \* max_attempts
    rOutcomes,      \* the operation: outcome of its n-th invocation
    rAttempt,       \* the loop variable attempt
    rInvocations,   \* number of func(...) calls made
    rLogs,          \* the "Attempt n failed: e" lines printed, as <<n, e>>
    rSleeps,        \* number of time.sleep(delay) calls made
    rResult,        \* <<"running">> | <<"returned", v>> | <<"raised", e>>
    rPc,            \* "idle" | "call" | "done"
    \* ---- the download loops (Spec)
    script,         \* "copernicus" | "noaa": which downloader runs
    plan,           \* the chunk descriptors, in the planner's order
    pc,             \* position in the script (see the actions)
    idx,            \* index in plan of the loop's current chunk
    attempt,        \* retry's attempt for the current step (copernicus)
    completed,      \* completed_chunks / completed_files, in memory
    logFile,        \* log_file / checkpoint_file on disk
    staging,        \* ids whose temp file exists on local disk
    passed,         \* steps of the current chunk that succeeded in this pass
    processed,      \* chunks whose fetch, materialize and upload all succeeded
    ledgerAtStart,  \* the ids the ledger file held when the current run started
    fetchCalls,     \* fetch invocations made by the current run
    uploadCalls,    \* upload invocations made by the current run
    attempted,      \* indices of the chunks the current run began, in order
    banner,         \* the final print of the current run was executed
    runNo,          \* number of process starts so far
    lastError,      \* <<>> or <<i, step>>: the failure that ended chunk i's processing
    ledgerError,    \* a write of the ledger file failed in the current run
    diedAt,         \* the position at which the process was killed, or "none"
    preCommit,      \* the ledger file as it was when the last commit began
    anyFailure      \* a step or a ledger write raised in the current run

chunkVars == <<genStart, genEnd, current, yielded, genPc>>
retryVars == <<rMax, rOutcomes, rAttempt, rInvocations, rLogs, rSleeps, rResult, rPc>>
pipeVars == <<script, plan, pc, idx, attempt, completed, logFile, staging, passed,
              processed, ledgerAtStart, fetchCalls, uploadCalls, attempted, banner, runNo,
              lastError, ledgerError, diedAt, preCommit, anyFailure>>
vars == <<chunkVars, retryVars, pipeVars>>

(***************************************************************************)
(* datetime values: <<year, month, day, hour, minute>>, compared as        *)
(* Python compares naive datetimes (lexicographically).                    *)
(***************************************************************************)
BaseYear == 1980
MaxYears == 2

Years == BaseYear .. (BaseYear + MaxYears - 1)
Months == 1 .. 12
\* one day below the clamp, the clamp itself, one day above it
Days == {1, 28, 31}
\* <<hour, minute>> pairs; 21:00 is the hour of the configured range
TimesOfDay == {<<0, 0>>, <<21, 0>>, <<21, 30>>}

DaysInMonth(m) == IF m = 2 THEN 28 ELSE IF m \in {4, 6, 9, 11} THEN 30 ELSE 31

DateTimes ==
    {<<y, m, d, t[1], t[2]>> : y \in Years, m \in Months, d \in Days, t \in TimesOfDay}

ValidDateTimes == {dt \in DateTimes : dt[3] <= DaysInMonth(dt[2])}

DtLess(a, b) ==
    \/ a[1] < b[1]
    \/ a[1] = b[1] /\ a[2] < b[2]
    \/ a[1] = b[1] /\ a[2] = b[2] /\ a[3] < b[3]
    \/ a[1] = b[1] /\ a[2] = b[2] /\ a[3] = b[3] /\ a[4] < b[4]
    \/ a[1] = b[1] /\ a[2] = b[2] /\ a[3] = b[3] /\ a[4] = b[4] /\ a[5] < b[5]

Min(a, b) == IF a < b THEN a ELSE b

\* datetime(year, month, current.day, current.hour): the day is not clamped
MonthLaterUnclamped(cur) ==
    <<cur[1] + (cur[2] \div 12), (cur[2] % 12) + 1, cur[3], cur[4], 0>>

\* datetime(year, month, min(current.day, 28), current.hour): minute is 0
MonthLater(cur) ==
    <<cur[1] + (cur[2] \div 12), (cur[2] % 12) + 1, Min(cur[3], 28), cur[4], 0>>

\* generate_chunks without "if next_chunk > end: next_chunk = end"
NextChunkUntruncated(cur, end) == MonthLater(cur)

\* the loop body of generate_chunks: next_chunk, truncated to end
NextChunk(cur, end) ==
    IF DtLess(end, MonthLater(cur)) THEN end ELSE MonthLater(cur)


\* the whole sequence generate_chunks(start, end) yields
RECURSIVE GenerateChunks(_, _)
GenerateChunks(start, end) ==
    IF DtLess(start, end)
    THEN <<<<start, NextChunk(start, end)>>>> \o GenerateChunks(NextChunk(start, end), end)
    ELSE <<>>

(***************************************************************************)
(* retry(func, max_attempts, delay)                                        *)
(***************************************************************************)
MaxRetryPolicy == 3
Errors == {"e1", "e2"}
Values == {"v1"}
Outcomes == {<<"ok", v>> : v \in Values} \cup {<<"err", e>> : e \in Errors}

\* "if attempt > max_attempts": the comparison inverted, no attempt is repeated
RetryMoreInverted(att, max_attempts) == att > max_attempts

\* "if attempt <= max_attempts": one attempt too many
RetryMoreOffByOne(att, max_attempts) == att <= max_attempts

\* "if attempt < max_attempts": another attempt follows the failed one
RetryMore(att, max_attempts) == att < max_attempts

\* raising the first failure kept from attempt 1 instead of the current one
RetryRaiseFirst(logs, e) == <<"raised", logs[1][2]>>

\* the bare "raise" in the except block: the exception being handled
RetryRaise(logs, e) == <<"raised", e>>

(***************************************************************************)
(* Idle values of the variables a specification does not use.              *)
(***************************************************************************)
ChunksIdle ==
    /\ genStart = <<>> /\ genEnd = <<>> /\ current = <<>>
    /\ yielded = <<>> /\ genPc = "idle"

RetryIdle ==
    /\ rMax = 0 /\ rOutcomes = <<>> /\ rAttempt = 0 /\ rInvocations = 0
    /\ rLogs = <<>> /\ rSleeps = 0 /\ rResult = <<"idle">> /\ rPc = "idle"

PipeIdle ==
    /\ script = "none" /\ plan = <<>> /\ pc = "idle" /\ idx = 0 /\ attempt = 0
    /\ completed = <<>> /\ logFile = [exists |-> FALSE, ids |-> <<>>, closed |-> FALSE]
    /\ staging = {} /\ passed = {} /\ processed = {} /\ ledgerAtStart = {}
    /\ fetchCalls = 0 /\ uploadCalls = 0 /\ attempted = <<>> /\ banner = FALSE
    /\ runNo = 0 /\ lastError = <<>> /\ ledgerError = FALSE /\ diedAt = "none"
    /\ preCommit = [exists |-> FALSE, ids |-> <<>>, closed |-> FALSE]
    /\ anyFailure = FALSE

(***************************************************************************)
(* SpecChunks: generate_chunks, one loop iteration per step.               *)
(***************************************************************************)
InitChunks ==
    /\ genStart \in ValidDateTimes
    /\ genEnd \in ValidDateTimes
    /\ current = genStart
    /\ yielded = <<>>
    /\ genPc = "running"
    /\ RetryIdle /\ PipeIdle

\* while current < end: ...; yield current, next_chunk; current = next_chunk
GenYield ==
    /\ genPc = "running"
    /\ DtLess(current, genEnd)
    /\ yielded' = Append(yielded, <<current, NextChunk(current, genEnd)>>)
    /\ current' = NextChunk(current, genEnd)
    /\ UNCHANGED <<genStart, genEnd, genPc, retryVars, pipeVars>>

\* the while condition is false: the generator is exhausted
GenExhaust ==
    /\ genPc = "running"
    /\ ~DtLess(current, genEnd)
    /\ genPc' = "exhausted"
    /\ UNCHANGED <<genStart, genEnd, current, yielded, retryVars, pipeVars>>

NextChunks == GenYield \/ GenExhaust

SpecChunks == InitChunks /\ [][NextChunks]_vars

(***************************************************************************)
(* SpecRetry: retry, one invocation of func per step.                      *)
(***************************************************************************)
InitRetry ==
    /\ rMax \in 1 .. MaxRetryPolicy
    /\ rOutcomes \in [1 .. (MaxRetryPolicy + 1) -> Outcomes]
    /\ rAttempt = 1
    /\ rInvocations = 0
    /\ rLogs = <<>>
    /\ rSleeps = 0
    /\ rResult = <<"running">>
    /\ rPc = "call"
    /\ ChunksIdle /\ PipeIdle

\* try: return func(*args, **kwargs)
RetryCallOk ==
    /\ rPc = "call"
    /\ rOutcomes[rInvocations + 1][1] = "ok"
    /\ rInvocations' = rInvocations + 1
    /\ rResult' = <<"returned", rOutcomes[rInvocations + 1][2]>>
    /\ rPc' = "done"
    /\ UNCHANGED <<rMax, rOutcomes, rAttempt, rLogs, rSleeps, chunkVars, pipeVars>>

\* except Exception as e: print; sleep and loop, or raise
RetryCallFail ==
    /\ rPc = "call"
    /\ rOutcomes[rInvocations + 1][1] = "err"
    /\ rInvocations' = rInvocations + 1
    /\ rLogs' = Append(rLogs, <<rAttempt, rOutcomes[rInvocations + 1][2]>>)
    /\ IF RetryMore(rAttempt, rMax)
       THEN /\ rSleeps' = rSleeps + 1
            /\ rAttempt' = rAttempt + 1
            /\ UNCHANGED <<rResult, rPc>>
       ELSE /\ rResult' = RetryRaise(rLogs', rOutcomes[rInvocations + 1][2])
            /\ rPc' = "done"
            /\ UNCHANGED <<rSleeps, rAttempt>>
    /\ UNCHANGED <<rMax, rOutcomes, chunkVars, pipeVars>>

NextRetry == RetryCallOk \/ RetryCallFail

SpecRetry == InitRetry /\ [][NextRetry]_vars


(***************************************************************************)
(* The download loops.  Configuration, chunk ids and the ledger file.      *)
(***************************************************************************)
EndMonth == 3
MaxRuns == 3
DefaultMaxAttempts == 3

\* start_date = datetime(1980, 1, 1, 21); the range ends on the 30th at 21h
start_date == <<BaseYear, 1, 1, 21, 0>>
end_date == <<BaseYear, EndMonth, 30, 21, 0>>

\* a key of the source bucket, as its '/'-separated components
GribKey(date_folder, filename) ==
    <<"GEFSv12", "reforecast", "2019", "c00", date_folder, filename>>

\* the .grib2 keys list_objects_v2 returns, in listing order: all in one date
\* folder, or the last one in a second date folder under the first one's name
Listings ==
    { [i \in 1 .. EndMonth |-> GribKey(1, i)],
      [i \in 1 .. EndMonth |-> IF i < EndMonth THEN GribKey(1, i) ELSE GribKey(2, 1)] }

\* strftime('%Y%m%d'): year, month and day; hour and minute are dropped
Strftime(dt) == <<dt[1], dt[2], dt[3]>>

\* chunk_name = f"{chunk_start:%Y%m%d}_{chunk_end:%Y%m%d}"
ChunkName(chunk) == <<Strftime(chunk[1]), Strftime(chunk[2])>>

\* filename = key.split('/')[-1]
Filename(key) == key[Len(key)]

\* the ChunkId of the i-th chunk of the plan
Id(i) == IF script = "copernicus" THEN ChunkName(plan[i]) ELSE Filename(plan[i])

AllIds == {Id(i) : i \in DOMAIN plan}

SeqRange(q) == {q[i] : i \in DOMAIN q}

RECURSIVE SetToSeq(_)
SetToSeq(S) ==
    IF S = {} THEN <<>>
    ELSE LET x == CHOOSE y \in S : TRUE IN <<x>> \o SetToSeq(S \ {x})

\* the ids held in memory: a list (copernicus) or a set (noaa)
CompletedIds == IF script = "copernicus" THEN SeqRange(completed) ELSE completed

\* list(completed_files): the set's elements in some order
CompletedList == IF script = "copernicus" THEN completed ELSE SetToSeq(completed)

\* a skip check that never matches
InLedgerNever(id) == FALSE

\* "chunk_name in completed_chunks" / "filename in completed_files"
InLedger(id) == id \in CompletedIds

(* The ledger file's text: the ids written so far and whether the closing  *)
(* bracket of the JSON array was written.                                  *)
NoFile == [exists |-> FALSE, ids |-> <<>>, closed |-> FALSE]

\* open(path, "w"): the file exists and is empty
OpenForWrite(file) == [exists |-> TRUE, ids |-> <<>>, closed |-> FALSE]

\* json.dump(list, f) run to its end and the file closed
JsonDump(list) == [exists |-> TRUE, ids |-> list, closed |-> TRUE]

\* what a write that stops early leaves: a proper prefix of the text
PartialDumps(list) ==
    {[exists |-> TRUE, ids |-> SubSeq(list, 1, n), closed |-> FALSE] : n \in 0 .. Len(list)}

\* json.load accepts the text only if the array is closed
JsonValid(file) == file.closed

JsonLoad(file) == file.ids

\* the ids a fresh run would load from the file
PersistedIds == IF logFile.exists /\ JsonValid(logFile) THEN SeqRange(JsonLoad(logFile)) ELSE {}

\* completed_chunks / completed_files before the load has run: no ids
NotLoaded == IF script = "copernicus" THEN <<>> ELSE {}

AllSteps == {"fetch", "materialize", "upload"}

Running == {"start", "list", "loop", "fetch", "materialize", "upload", "remove",
            "append", "save_open", "save_write"}

Stopped == {"done", "aborted", "crashed"}

Init ==
    /\ script \in {"copernicus", "noaa"}
    /\ plan \in IF script = "copernicus"
                THEN {GenerateChunks(start_date, end_date)}
                ELSE Listings
    /\ pc = "start"
    /\ idx = 1
    /\ attempt = 1
    /\ completed = NotLoaded
    /\ logFile = NoFile
    /\ staging = {}
    /\ passed = {}
    /\ processed = {}
    /\ ledgerAtStart = {}
    /\ fetchCalls = 0
    /\ uploadCalls = 0
    /\ attempted = <<>>
    /\ banner = FALSE
    /\ runNo = 1
    /\ lastError = <<>>
    /\ ledgerError = FALSE
    /\ diedAt = "none"
    /\ preCommit = NoFile
    /\ anyFailure = FALSE
    /\ ChunksIdle /\ RetryIdle

Cop(at) == script = "copernicus" /\ pc = at
Noaa(at) == script = "noaa" /\ pc = at

others == <<script, plan, chunkVars, retryVars>>
ghosts == <<lastError, ledgerError, diedAt, preCommit, anyFailure>>

(***************************************************************************)
(* copernicus_downloader.py                                                *)
(***************************************************************************)
\* an operation under retry failed: next attempt, or the exception leaves
\* retry and, uncaught, the script
CopStepFailed ==
    IF RetryMore(attempt, DefaultMaxAttempts)
    THEN attempt' = attempt + 1 /\ pc' = pc /\ lastError' = lastError /\ anyFailure' = TRUE
    ELSE /\ attempt' = attempt /\ pc' = "aborted" /\ lastError' = <<idx, pc>>
         /\ anyFailure' = TRUE

\* the loop body with the commit placed before the upload
CopAfterCommitFirst(step) ==
    CASE step = "fetch" -> "materialize"
      [] step = "materialize" -> "append"
      [] step = "append" -> "save_open"
      [] step = "save_open" -> "save_write"
      [] step = "save_write" -> "upload"
      [] step = "upload" -> "remove"
      [] step = "remove" -> "loop"

\* the statement after a step of the loop body
CopAfter(step) ==
    CASE step = "fetch" -> "materialize"
      [] step = "materialize" -> "upload"
      [] step = "upload" -> "remove"
      [] step = "remove" -> "append"
      [] step = "append" -> "save_open"
      [] step = "save_open" -> "save_write"
      [] step = "save_write" -> "loop"

\* a start that never reads log_file
CopLoadFresh ==
    /\ Cop("start")
    /\ completed' = <<>>
    /\ pc' = "loop"
    /\ UNCHANGED <<idx, attempt, logFile, staging, passed, processed, ledgerAtStart, fetchCalls,
                   uploadCalls, attempted, banner, runNo, ghosts, others>>

\* lines 28-32
CopLoad ==
    /\ Cop("start")
    /\ IF ~logFile.exists
       THEN completed' = <<>> /\ pc' = "loop"
       ELSE IF JsonValid(logFile)
            THEN completed' = JsonLoad(logFile) /\ pc' = "loop"
            ELSE pc' = "aborted" /\ UNCHANGED completed
    /\ UNCHANGED <<idx, attempt, logFile, staging, passed, processed, ledgerAtStart, fetchCalls,
                   uploadCalls, attempted, banner, runNo, ghosts, others>>

\* the final print reached before the generator is exhausted
CopFinishEarly ==
    /\ Cop("loop")
    /\ banner' = TRUE
    /\ pc' = "done"
    /\ UNCHANGED <<idx, attempt, completed, logFile, staging, passed, processed,
                   ledgerAtStart, fetchCalls, uploadCalls, attempted, runNo, ghosts, others>>

\* the generator is exhausted: line 104
CopFinish ==
    /\ Cop("loop")
    /\ idx > Len(plan)
    /\ banner' = TRUE
    /\ pc' = "done"
    /\ UNCHANGED <<idx, attempt, completed, logFile, staging, passed, processed,
                   ledgerAtStart, fetchCalls, uploadCalls, attempted, runNo, ghosts, others>>

\* lines 64-68
CopSkip ==
    /\ Cop("loop")
    /\ idx <= Len(plan)
    /\ InLedger(Id(idx))
    /\ idx' = idx + 1
    /\ UNCHANGED <<pc, attempt, completed, logFile, staging, passed, processed,
                   ledgerAtStart, fetchCalls, uploadCalls, attempted, banner, runNo, ghosts, others>>

\* lines 64-72
CopBegin ==
    /\ Cop("loop")
    /\ idx <= Len(plan)
    /\ ~InLedger(Id(idx))
    /\ pc' = "fetch"
    /\ attempt' = 1
    /\ passed' = {}
    /\ lastError' = <<>>
    /\ attempted' = Append(attempted, idx)
    /\ UNCHANGED <<idx, completed, logFile, staging, processed, ledgerAtStart,
                   fetchCalls, uploadCalls, banner, runNo, ledgerError, diedAt, preCommit, anyFailure, others>>

\* lines 75-85, an attempt that returns
CopFetchOk ==
    /\ Cop("fetch")
    /\ fetchCalls' = fetchCalls + 1
    /\ passed' = passed \cup {"fetch"}
    /\ pc' = CopAfter("fetch")
    /\ attempt' = 1
    /\ UNCHANGED <<idx, completed, logFile, staging, processed, ledgerAtStart,
                   uploadCalls, attempted, banner, runNo, ghosts, others>>

\* lines 75-85, an attempt that raises
CopFetchFail ==
    /\ Cop("fetch")
    /\ fetchCalls' = fetchCalls + 1
    /\ CopStepFailed
    /\ UNCHANGED <<idx, completed, logFile, staging, passed, processed, ledgerAtStart,
                   uploadCalls, attempted, banner, runNo, ledgerError, diedAt, preCommit, others>>

\* lines 87-89, an attempt that returns: temp_file is written
CopMaterializeOk ==
    /\ Cop("materialize")
    /\ staging' = staging \cup {Id(idx)}
    /\ passed' = passed \cup {"materialize"}
    /\ pc' = CopAfter("materialize")
    /\ attempt' = 1
    /\ UNCHANGED <<idx, completed, logFile, processed, ledgerAtStart, fetchCalls,
                   uploadCalls, attempted, banner, runNo, ghosts, others>>

\* lines 87-89, an attempt that raises: temp_file may be partly written
CopMaterializeFail ==
    /\ Cop("materialize")
    /\ staging' \in {staging, staging \cup {Id(idx)}}
    /\ CopStepFailed
    /\ UNCHANGED <<idx, completed, logFile, passed, processed, ledgerAtStart, fetchCalls,
                   uploadCalls, attempted, banner, runNo, ledgerError, diedAt, preCommit, others>>

\* lines 92-94, an attempt that returns
CopUploadOk ==
    /\ Cop("upload")
    /\ uploadCalls' = uploadCalls + 1
    /\ passed' = passed \cup {"upload"}
    /\ processed' = IF passed' = AllSteps THEN processed \cup {idx} ELSE processed
    /\ pc' = CopAfter("upload")
    /\ attempt' = 1
    /\ UNCHANGED <<idx, completed, logFile, staging, ledgerAtStart, fetchCalls,
                   attempted, banner, runNo, ghosts, others>>

\* lines 92-94, an attempt that raises
CopUploadFail ==
    /\ Cop("upload")
    /\ uploadCalls' = uploadCalls + 1
    /\ CopStepFailed
    /\ UNCHANGED <<idx, completed, logFile, staging, passed, processed, ledgerAtStart,
                   fetchCalls, attempted, banner, runNo, ledgerError, diedAt, preCommit, others>>

\* the loop body without os.remove(temp_file)
CopRemoveNothing ==
    /\ Cop("remove")
    /\ pc' = "append"
    /\ UNCHANGED <<idx, attempt, completed, logFile, staging, passed, processed, ledgerAtStart,
                   fetchCalls, uploadCalls, attempted, banner, runNo, ghosts, others>>

\* line 97
CopRemove ==
    /\ Cop("remove")
    /\ staging' = staging \ {Id(idx)}
    /\ pc' = CopAfter("remove")
    /\ UNCHANGED <<idx, attempt, completed, logFile, passed, processed, ledgerAtStart,
                   fetchCalls, uploadCalls, attempted, banner, runNo, ghosts, others>>

\* line 100
CopAppend ==
    /\ Cop("append")
    /\ completed' = Append(completed, Id(idx))
    /\ preCommit' = logFile
    /\ pc' = CopAfter("append")
    /\ UNCHANGED <<idx, attempt, logFile, staging, passed, processed, ledgerAtStart,
                   fetchCalls, uploadCalls, attempted, banner, runNo, lastError, ledgerError, diedAt, anyFailure, others>>

\* save_log, line 35: the file is opened for writing, which empties it
CopSaveOpen ==
    /\ Cop("save_open")
    /\ logFile' = OpenForWrite(logFile)
    /\ pc' = CopAfter("save_open")
    /\ UNCHANGED <<idx, attempt, completed, staging, passed, processed, ledgerAtStart,
                   fetchCalls, uploadCalls, attempted, banner, runNo, ghosts, others>>

\* save_log, line 35: open raises; nothing catches it
CopSaveOpenFail ==
    /\ Cop("save_open")
    /\ pc' = "aborted"
    /\ lastError' = <<idx, pc>>
    /\ ledgerError' = TRUE
    /\ anyFailure' = TRUE
    /\ UNCHANGED <<idx, attempt, completed, logFile, staging, passed, processed,
                   ledgerAtStart, fetchCalls, uploadCalls, attempted, banner, runNo, diedAt, preCommit, others>>

\* save_log, line 36, and back to the loop head (lines 102, 64)
CopSaveWrite ==
    /\ Cop("save_write")
    /\ logFile' = JsonDump(CompletedList)
    /\ pc' = CopAfter("save_write")
    /\ idx' = idx + 1
    /\ UNCHANGED <<attempt, completed, staging, passed, processed, ledgerAtStart,
                   fetchCalls, uploadCalls, attempted, banner, runNo, ghosts, others>>

\* save_log, line 36: the write raises part way; nothing catches it
CopSaveWriteFail ==
    /\ Cop("save_write")
    /\ logFile' \in PartialDumps(CompletedList)
    /\ pc' = "aborted"
    /\ lastError' = <<idx, pc>>
    /\ ledgerError' = TRUE
    /\ anyFailure' = TRUE
    /\ UNCHANGED <<idx, attempt, completed, staging, passed, processed, ledgerAtStart,
                   fetchCalls, uploadCalls, attempted, banner, runNo, diedAt, preCommit, others>>

(***************************************************************************)
(* noaa_downloader.py                                                      *)
(***************************************************************************)
\* lines 79-81: the except clause prints the error and continues the loop
NoaaStepFailed ==
    pc' = "loop" /\ idx' = idx + 1 /\ lastError' = <<idx, pc>> /\ anyFailure' = TRUE

\* the try block with the checkpoint update placed before the cleanup
NoaaAfterRemoveLast(step) ==
    CASE step = "fetch" -> "materialize"
      [] step = "materialize" -> "upload"
      [] step = "upload" -> "append"
      [] step = "append" -> "save_open"
      [] step = "save_open" -> "save_write"
      [] step = "save_write" -> "loop"
      [] step = "remove" -> "loop"

\* the statement after a step of the try block
NoaaAfter(step) ==
    CASE step = "fetch" -> "materialize"
      [] step = "materialize" -> "upload"
      [] step = "upload" -> "remove"
      [] step = "remove" -> "append"
      [] step = "append" -> "save_open"
      [] step = "save_open" -> "save_write"
      [] step = "save_write" -> "loop"

\* lines 23-27
NoaaLoad ==
    /\ Noaa("start")
    /\ IF ~logFile.exists
       THEN completed' = {} /\ pc' = "list"
       ELSE IF JsonValid(logFile)
            THEN completed' = SeqRange(JsonLoad(logFile)) /\ pc' = "list"
            ELSE pc' = "aborted" /\ UNCHANGED completed
    /\ UNCHANGED <<idx, attempt, logFile, staging, passed, processed, ledgerAtStart, fetchCalls,
                   uploadCalls, attempted, banner, runNo, ghosts, others>>

\* lines 30-33: the listing returns
NoaaList ==
    /\ Noaa("list")
    /\ pc' = "loop"
    /\ UNCHANGED <<idx, attempt, completed, logFile, staging, passed, processed,
                   ledgerAtStart, fetchCalls, uploadCalls, attempted, banner, runNo, ghosts, others>>

\* line 30: the listing raises, outside any try
NoaaListFail ==
    /\ Noaa("list")
    /\ pc' = "aborted"
    /\ UNCHANGED <<idx, attempt, completed, logFile, staging, passed, processed,
                   ledgerAtStart, fetchCalls, uploadCalls, attempted, banner, runNo, ghosts, others>>

\* the for loop ends; the script has no statement after it
NoaaFinish ==
    /\ Noaa("loop")
    /\ idx > Len(plan)
    /\ pc' = "done"
    /\ UNCHANGED <<idx, attempt, completed, logFile, staging, passed, processed,
                   ledgerAtStart, fetchCalls, uploadCalls, attempted, banner, runNo, ghosts, others>>

\* lines 36-41
NoaaSkip ==
    /\ Noaa("loop")
    /\ idx <= Len(plan)
    /\ InLedger(Id(idx))
    /\ idx' = idx + 1
    /\ UNCHANGED <<pc, attempt, completed, logFile, staging, passed, processed,
                   ledgerAtStart, fetchCalls, uploadCalls, attempted, banner, runNo, ghosts, others>>

\* lines 36-44
NoaaBegin ==
    /\ Noaa("loop")
    /\ idx <= Len(plan)
    /\ ~InLedger(Id(idx))
    /\ pc' = "fetch"
    /\ passed' = {}
    /\ lastError' = <<>>
    /\ attempted' = Append(attempted, idx)
    /\ UNCHANGED <<idx, attempt, completed, logFile, staging, processed, ledgerAtStart,
                   fetchCalls, uploadCalls, banner, runNo, ledgerError, diedAt, preCommit, anyFailure, others>>

\* lines 47-61: get_object, read, open_dataset, sel
NoaaFetchOk ==
    /\ Noaa("fetch")
    /\ fetchCalls' = fetchCalls + 1
    /\ passed' = passed \cup {"fetch"}
    /\ pc' = NoaaAfter("fetch")
    /\ UNCHANGED <<idx, attempt, completed, logFile, staging, processed, ledgerAtStart,
                   uploadCalls, attempted, banner, runNo, ghosts, others>>

\* lines 47-55 raise
NoaaFetchFail ==
    /\ Noaa("fetch")
    /\ fetchCalls' = fetchCalls + 1
    /\ NoaaStepFailed
    /\ UNCHANGED <<attempt, completed, logFile, staging, passed, processed, ledgerAtStart,
                   uploadCalls, attempted, banner, runNo, ledgerError, diedAt, preCommit, others>>

\* line 64: local_nc_path is written
NoaaMaterializeOk ==
    /\ Noaa("materialize")
    /\ staging' = staging \cup {Id(idx)}
    /\ passed' = passed \cup {"materialize"}
    /\ pc' = NoaaAfter("materialize")
    /\ UNCHANGED <<idx, attempt, completed, logFile, processed, ledgerAtStart, fetchCalls,
                   uploadCalls, attempted, banner, runNo, ghosts, others>>

\* line 64 raises: local_nc_path may be partly written
NoaaMaterializeFail ==
    /\ Noaa("materialize")
    /\ staging' \in {staging, staging \cup {Id(idx)}}
    /\ NoaaStepFailed
    /\ UNCHANGED <<attempt, completed, logFile, passed, processed, ledgerAtStart,
                   fetchCalls, uploadCalls, attempted, banner, runNo, ledgerError, diedAt, preCommit, others>>

\* line 67
NoaaUploadOk ==
    /\ Noaa("upload")
    /\ uploadCalls' = uploadCalls + 1
    /\ passed' = passed \cup {"upload"}
    /\ processed' = IF passed' = AllSteps THEN processed \cup {idx} ELSE processed
    /\ pc' = NoaaAfter("upload")
    /\ UNCHANGED <<idx, attempt, completed, logFile, staging, ledgerAtStart, fetchCalls,
                   attempted, banner, runNo, ghosts, others>>

\* line 67 raises
NoaaUploadFail ==
    /\ Noaa("upload")
    /\ uploadCalls' = uploadCalls + 1
    /\ NoaaStepFailed
    /\ UNCHANGED <<attempt, completed, logFile, staging, passed, processed, ledgerAtStart,
                   fetchCalls, attempted, banner, runNo, ledgerError, diedAt, preCommit, others>>

\* line 70
NoaaRemove ==
    /\ Noaa("remove")
    /\ staging' = staging \ {Id(idx)}
    /\ pc' = NoaaAfter("remove")
    /\ UNCHANGED <<idx, attempt, completed, logFile, passed, processed, ledgerAtStart,
                   fetchCalls, uploadCalls, attempted, banner, runNo, ghosts, others>>

\* line 73
NoaaAdd ==
    /\ Noaa("append")
    /\ completed' = completed \cup {Id(idx)}
    /\ preCommit' = logFile
    /\ pc' = NoaaAfter("append")
    /\ UNCHANGED <<idx, attempt, logFile, staging, passed, processed, ledgerAtStart,
                   fetchCalls, uploadCalls, attempted, banner, runNo, lastError, ledgerError, diedAt, anyFailure, others>>

\* line 74: the checkpoint is opened for writing, which empties it
NoaaCkptOpen ==
    /\ Noaa("save_open")
    /\ logFile' = OpenForWrite(logFile)
    /\ pc' = NoaaAfter("save_open")
    /\ UNCHANGED <<idx, attempt, completed, staging, passed, processed, ledgerAtStart,
                   fetchCalls, uploadCalls, attempted, banner, runNo, ghosts, others>>

\* line 74 raises, inside the try
NoaaCkptOpenFail ==
    /\ Noaa("save_open")
    /\ NoaaStepFailed
    /\ ledgerError' = TRUE
    /\ UNCHANGED <<attempt, completed, logFile, staging, passed, processed, ledgerAtStart,
                   fetchCalls, uploadCalls, attempted, banner, runNo, diedAt, preCommit, others>>

\* lines 75-77, and back to the loop head
NoaaCkptWrite ==
    /\ Noaa("save_write")
    /\ logFile' = JsonDump(CompletedList)
    /\ pc' = NoaaAfter("save_write")
    /\ idx' = idx + 1
    /\ UNCHANGED <<attempt, completed, staging, passed, processed, ledgerAtStart,
                   fetchCalls, uploadCalls, attempted, banner, runNo, ghosts, others>>

\* line 75 raises part way, inside the try
NoaaCkptWriteFail ==
    /\ Noaa("save_write")
    /\ logFile' \in PartialDumps(CompletedList)
    /\ NoaaStepFailed
    /\ ledgerError' = TRUE
    /\ UNCHANGED <<attempt, completed, staging, passed, processed, ledgerAtStart,
                   fetchCalls, uploadCalls, attempted, banner, runNo, diedAt, preCommit, others>>

(***************************************************************************)
(* The process is killed, and started again.                               *)
(***************************************************************************)
\* what a kill leaves on disk: a write in progress stops where it is
Crash ==
    /\ pc \in Running
    /\ pc' = "crashed"
    /\ diedAt' = pc
    /\ staging' \in IF pc = "materialize"
                    THEN {staging, staging \cup {Id(idx)}}
                    ELSE {staging}
    /\ logFile' \in IF pc = "save_write"
                    THEN PartialDumps(CompletedList) \cup {JsonDump(CompletedList)}
                    ELSE {logFile}
    /\ UNCHANGED <<idx, attempt, completed, passed, processed, ledgerAtStart,
                   fetchCalls, uploadCalls, attempted, banner, runNo, lastError, ledgerError, preCommit, anyFailure, others>>

\* a new process: the module-level code runs from its first line
NewProcess(n) ==
    /\ pc \in Stopped
    /\ runNo' = n
    /\ pc' = "start"
    /\ idx' = 1
    /\ attempt' = 1
    /\ completed' = NotLoaded
    /\ passed' = {}
    /\ ledgerAtStart' = PersistedIds
    /\ fetchCalls' = 0
    /\ uploadCalls' = 0
    /\ attempted' = <<>>
    /\ banner' = FALSE
    /\ lastError' = <<>>
    /\ ledgerError' = FALSE
    /\ anyFailure' = FALSE
    /\ diedAt' = "none"
    /\ UNCHANGED <<logFile, staging, processed, preCommit, others>>

Restart == runNo < MaxRuns /\ NewProcess(runNo + 1)

\* the runs after the counted ones: started the same way, not counted
RestartAgain == runNo = MaxRuns /\ NewProcess(runNo)

\* the statements of the two scripts
Step ==
    \/ CopLoad \/ CopFinish \/ CopSkip \/ CopBegin
    \/ CopFetchOk \/ CopFetchFail
    \/ CopMaterializeOk \/ CopMaterializeFail
    \/ CopUploadOk \/ CopUploadFail
    \/ CopRemove \/ CopAppend
    \/ CopSaveOpen \/ CopSaveOpenFail \/ CopSaveWrite \/ CopSaveWriteFail
    \/ NoaaLoad \/ NoaaList \/ NoaaListFail \/ NoaaFinish \/ NoaaSkip \/ NoaaBegin
    \/ NoaaFetchOk \/ NoaaFetchFail
    \/ NoaaMaterializeOk \/ NoaaMaterializeFail
    \/ NoaaUploadOk \/ NoaaUploadFail
    \/ NoaaRemove \/ NoaaAdd
    \/ NoaaCkptOpen \/ NoaaCkptOpenFail \/ NoaaCkptWrite \/ NoaaCkptWriteFail

Next == Step \/ Crash \/ Restart

Spec == Init /\ [][Next]_vars

(***************************************************************************)
(* SpecTerm: the generator and the scripts under the assumption that a     *)
(* running interpreter executes its next statement and that every call     *)
(* returns or raises.  Kills and restarts stay possible, never required.   *)
(***************************************************************************)
\* the generator is started on the hour the scripts use (21:00, line 59)
InitTerm ==
    \/ InitChunks /\ genStart[4] = start_date[4] /\ genStart[5] = start_date[5]
                  /\ genEnd[4] = end_date[4] /\ genEnd[5] = end_date[5]
    \/ Init

NextTerm == NextChunks \/ Next

SpecTerm == InitTerm /\ [][NextTerm]_vars /\ WF_vars(NextChunks) /\ WF_vars(Step)

(***************************************************************************)
(* SpecResume: the scripts restarted for ever.  Every stopped run is       *)
(* started again, a running interpreter executes its next statement, and   *)
(* an operation that is attempted again and again succeeds in the end      *)
(* (each fetch, conversion, upload, listing and ledger write).  The        *)
(* process is killed only during the counted runs.                         *)
(***************************************************************************)
FetchOk == CopFetchOk \/ NoaaFetchOk

MaterializeOk == CopMaterializeOk \/ NoaaMaterializeOk

UploadOk == CopUploadOk \/ NoaaUploadOk

LedgerOpenOk == CopSaveOpen \/ NoaaCkptOpen

LedgerWriteOk == CopSaveWrite \/ NoaaCkptWrite

CrashCounted == runNo < MaxRuns /\ Crash

NextResume == Step \/ CrashCounted \/ Restart \/ RestartAgain

SpecResume ==
    /\ Init
    /\ [][NextResume]_vars
    /\ WF_vars(Step)
    /\ WF_vars(Restart \/ RestartAgain)
    /\ SF_vars(FetchOk)
    /\ SF_vars(MaterializeOk)
    /\ SF_vars(UploadOk)
    /\ SF_vars(NoaaList)
    /\ SF_vars(LedgerOpenOk)
    /\ SF_vars(LedgerWriteOk)

(***************************************************************************)
(* Properties                                                              *)
(***************************************************************************)
\* every id the ledger file's text holds, closed or not
FileIds == SeqRange(logFile.ids)

Processing == {"fetch", "materialize", "upload", "remove", "append", "save_open", "save_write"}

\* C1: in every reachable state, also after failed steps, exhausted retries,
\* crashes and restarts, every id recorded in the ledger (in the file or in
\* memory) is the id of a chunk whose fetch, materialize and upload all
\* succeeded in one pass.
C1_LedgerOnlyFullyProcessed ==
    \A id \in FileIds \cup CompletedIds : \E i \in processed : Id(i) = id

\* a later run stopped by an exhausted upload of a chunk that is not in the
\* ledger, while the ledger holds an earlier chunk
C1_Witness ==
    /\ runNo >= 2
    /\ PersistedIds # {}
    /\ pc = "aborted"
    /\ lastError = <<idx, "upload">>
    /\ passed = {"fetch", "materialize"}
    /\ Id(idx) \notin PersistedIds

\* C2: for start < end the yielded intervals partition [start, end): the first
\* begins at start, each is non-empty, each ends where the next begins, and
\* once the generator is exhausted the last one ends exactly at end.
C2_ChunksPartitionDomain ==
    DtLess(genStart, genEnd) =>
        /\ \A i \in DOMAIN yielded : DtLess(yielded[i][1], yielded[i][2])
        /\ Len(yielded) > 0 => yielded[1][1] = genStart
        /\ \A i \in 1 .. (Len(yielded) - 1) : yielded[i][2] = yielded[i + 1][1]
        /\ genPc = "exhausted" =>
              /\ Len(yielded) > 0
              /\ yielded[Len(yielded)][2] = genEnd

\* an exhausted generator over a year boundary, from a clamped day 31, whose
\* last interval was cut at end
C2_Witness ==
    /\ genPc = "exhausted"
    /\ Len(yielded) >= 3
    /\ genStart[3] = 31
    /\ genStart[1] < genEnd[1]
    /\ genEnd # MonthLater(yielded[Len(yielded)][1])

\* C3: a run that starts from a ledger holding the id of every planned chunk
\* makes no fetch call and no upload call and begins no chunk.
C3_SecondRunSkipsAll ==
    AllIds \subseteq ledgerAtStart =>
        /\ fetchCalls = 0
        /\ uploadCalls = 0
        /\ attempted = <<>>
        /\ pc \notin Processing

\* the second run, over the ledger the first run filled, has reached its end
C3_Witness ==
    /\ runNo = 2
    /\ AllIds \subseteq ledgerAtStart
    /\ pc = "done"
    /\ idx = Len(plan) + 1

\* C4: a run begins only chunks whose id was not in the ledger when it
\* started, in the planner's order, and a run that reaches its end has begun
\* exactly the ids the ledger lacked.
C4_ResumeRemainingInOrder ==
    /\ \A k \in DOMAIN attempted : Id(attempted[k]) \notin ledgerAtStart
    /\ \A k \in 1 .. (Len(attempted) - 1) : attempted[k] < attempted[k + 1]
    /\ pc \in Processing => Id(idx) \notin ledgerAtStart
    /\ pc = "done" => {Id(attempted[k]) : k \in DOMAIN attempted} = AllIds \ ledgerAtStart

\* a restarted run that found part of the plan committed and went through
\* the rest
C4_Witness ==
    /\ runNo >= 2
    /\ ledgerAtStart # {}
    /\ pc = "done"
    /\ Len(attempted) >= 2

\* the number of failures the operation gives before its first success
LeadingFailures ==
    Cardinality({n \in DOMAIN rOutcomes : \A j \in 1 .. n : rOutcomes[j][1] = "err"})

\* C5: an operation that fails k < max_attempts times and then succeeds makes
\* retry return that value after k+1 invocations and k failure logs; otherwise
\* retry raises after exactly max_attempts invocations.
C5_RetryCounts ==
    /\ rPc # "idle" => rInvocations <= Min(LeadingFailures + 1, rMax)
    /\ rPc = "done" =>
          IF LeadingFailures < rMax
          THEN /\ rResult = <<"returned", rOutcomes[LeadingFailures + 1][2]>>
               /\ rInvocations = LeadingFailures + 1
               /\ Len(rLogs) = LeadingFailures
          ELSE /\ rResult[1] = "raised"
               /\ rInvocations = rMax

\* two failures, then the success of the third and last allowed attempt
C5_Witness ==
    /\ rPc = "done"
    /\ rMax = 3
    /\ rResult[1] = "returned"
    /\ rInvocations = 3
    /\ Len(rLogs) = 2

\* C6: when every attempt fails, retry raises the failure of the last attempt.
C6_RaisesLastFailure ==
    (rPc = "done" /\ rResult[1] = "raised") =>
        /\ rResult[2] = rOutcomes[rMax][2]
        /\ rLogs[Len(rLogs)] = <<rMax, rResult[2]>>

\* three failed attempts whose first and last errors differ
C6_Witness ==
    /\ rPc = "done"
    /\ rResult[1] = "raised"
    /\ rMax = 3
    /\ rLogs[1][2] # rLogs[3][2]

\* C7: after a chunk's upload failed for good, no staging file of that chunk
\* is on disk and the ledger does not hold its id.
C7_CleanupAfterUploadFailure ==
    (lastError # <<>> /\ lastError[2] = "upload") =>
        /\ Id(lastError[1]) \notin staging
        /\ Id(lastError[1]) \notin PersistedIds

\* C8: after a chunk's fetch, materialize or upload failed for good, the chunk
\* has no ledger entry and the run has not been aborted.
C8_ContinueOnError ==
    (lastError # <<>> /\ lastError[2] \in AllSteps) =>
        /\ Id(lastError[1]) \notin PersistedIds
        /\ pc # "aborted"

\* C9: a process killed while it persists a commit leaves the ledger file as
\* it was before the commit or as it is after it.
C9_CommitAtomic ==
    (pc = "crashed" /\ diedAt \in {"save_open", "save_write"}) =>
        logFile \in {preCommit, JsonDump(CompletedList)}

\* C10: after a write of the ledger file failed, the run processes no further
\* chunk.
C10_LedgerWriteFailureFatal ==
    ledgerError => pc \notin Processing

\* C11: in every reachable state at most one staging file is on local disk.
C11_AtMostOneStagingFile ==
    Cardinality(staging) <= 1

\* the end of a run that began with no id in the ledger and in which nothing
\* raised
HappyRunDone ==
    /\ pc = "done"
    /\ ledgerAtStart = {}
    /\ ~anyFailure

\* C12: after a run from an empty ledger in which every step succeeded, the
\* ledger holds exactly the ids of all planned chunks (for the monthly planner
\* the pairs startdate_enddate, in the planner's order) and no staging file
\* is left.
C12_HappyPathLedger ==
    HappyRunDone =>
        /\ logFile.exists /\ JsonValid(logFile)
        /\ PersistedIds = AllIds
        /\ staging = {}
        /\ script = "copernicus" =>
              JsonLoad(logFile) =
                  [i \in 1 .. Len(plan) |->
                      << <<plan[i][1][1], plan[i][1][2], plan[i][1][3]>>,
                         <<plan[i][2][1], plan[i][2][2], plan[i][2][3]>> >>]
        /\ script = "noaa" => PersistedIds = {plan[i][Len(plan[i])] : i \in DOMAIN plan}

\* the monthly run over the whole range has ended without a failure
C12_Witness ==
    /\ HappyRunDone
    /\ script = "copernicus"
    /\ Len(attempted) = Len(plan)
    /\ Len(plan) >= 2

\* C13: a chunk is given up at fetch, materialize or upload only after that
\* step was invoked max_attempts times in a row.
C13_StepsRetried ==
    (lastError # <<>> /\ lastError[2] \in AllSteps) => attempt = DefaultMaxAttempts

\* C14: every yielded interval that is not the last one ends in the calendar
\* month after its start, on day min(start.day, 28), at the start's hour; the
\* last one ends no later than that.
C14_ChunksOneMonth ==
    \A i \in DOMAIN yielded :
        LET s == yielded[i][1]
            e == yielded[i][2]
            m == <<IF s[2] = 12 THEN s[1] + 1 ELSE s[1],
                   IF s[2] = 12 THEN 1 ELSE s[2] + 1,
                   IF s[3] < 28 THEN s[3] ELSE 28,
                   s[4], 0>>
        IN  /\ (i < Len(yielded) \/ DtLess(e, genEnd)) => e = m
            /\ ~DtLess(m, e)

\* from 31 December 21:30: two whole intervals over the year boundary with
\* the day clamped, then a shorter last one
C14_Witness ==
    /\ genPc = "exhausted"
    /\ Len(yielded) = 3
    /\ genStart[2] = 12 /\ genStart[3] = 31 /\ genStart[5] = 30
    /\ yielded[1][2] = <<genStart[1] + 1, 1, 28, 21, 0>>
    /\ genEnd # MonthLater(yielded[3][1])

\* C17: the commit of a chunk runs only after its upload succeeded and its
\* staging file was deleted, so no id committed in the current run has a
\* staging file on disk.
C17_CommitAfterUploadAndCleanup ==
    /\ pc \in {"append", "save_open", "save_write"} =>
          /\ "upload" \in passed
          /\ Id(idx) \notin staging
    /\ \A id \in CompletedIds \ ledgerAtStart : id \notin staging

\* a second chunk is being committed while the first one, committed in the
\* same run, has no staging file
C17_Witness ==
    /\ pc = "save_write"
    /\ idx >= 2
    /\ Cardinality(CompletedIds \ ledgerAtStart) >= 2
    /\ staging = {}

\* C18: whenever the runner is between chunks, the ids held in memory for the
\* skip check are the ids persisted in the ledger file.
C18_MemoryEqualsPersisted ==
    pc = "loop" => CompletedIds = PersistedIds

\* the ids a ledger file's text gives a reader
IdsOf(file) == IF file.exists /\ JsonValid(file) THEN SeqRange(JsonLoad(file)) ELSE {}

\* C19: outside a write in progress the ledger file is as it was when the
\* last commit began, or it is a whole snapshot holding those ids and exactly
\* one more.
C19_LedgerAppendOnly ==
    pc # "save_write" =>
        \/ logFile = preCommit
        \/ /\ logFile.exists /\ JsonValid(logFile)
           /\ IdsOf(preCommit) \subseteq PersistedIds
           /\ Cardinality(PersistedIds \ IdsOf(preCommit)) = 1

\* C20: retry sleeps once after each failed attempt that another attempt
\* follows: k sleeps when the operation succeeds after k < max_attempts
\* failures, max_attempts - 1 sleeps when it raises.
C20_RetrySleeps ==
    /\ rPc = "call" => rSleeps = rInvocations
    /\ rPc = "done" =>
          rSleeps = IF LeadingFailures < rMax THEN LeadingFailures ELSE rMax - 1

\* three failed attempts of three: two sleeps, then the raise
C20_Witness ==
    /\ rPc = "done"
    /\ rMax = 3
    /\ rResult[1] = "raised"
    /\ rSleeps = 2

\* C15: every yielded interval ends strictly after its start and nothing is
\* yielded when start >= end; no step of a chunk is invoked more than
\* max_attempts times; the generator is exhausted eventually and every run
\* ends eventually.
C15_Terminates ==
    /\ [](genPc # "idle" =>
            /\ \A i \in DOMAIN yielded : DtLess(yielded[i][1], yielded[i][2])
            /\ ~DtLess(genStart, genEnd) => yielded = <<>>)
    /\ [](pc \in Processing => attempt \in 1 .. DefaultMaxAttempts)
    /\ (genPc = "running") ~> (genPc = "exhausted")
    /\ (pc \in Running) ~> (pc \in Stopped)

\* a monthly run that went through the whole plan, with retried steps, and
\* printed its last line
C15_Witness ==
    /\ script = "copernicus"
    /\ pc = "done"
    /\ banner
    /\ anyFailure
    /\ Len(attempted) = Len(plan)

\* C16: when every stopped run is started again and every operation succeeds
\* when attempted often enough, eventually every chunk of the plan has its
\* id in the ledger.
C16_ResumptionCompletes == <>(AllIds \subseteq PersistedIds)

\* the runs that do not complete stay on a ledger file that cannot be parsed
C16_CompletesUnlessLedgerBroken ==
    \/ <>(AllIds \subseteq PersistedIds)
    \/ <>[](logFile.exists /\ ~JsonValid(logFile))

\* C21: the final line is printed only by a run that went through the whole
\* plan, every chunk of it in the ledger, with no exception leaving the loop;
\* a run ended by an exception has not printed it.
C21_BannerOnlyAfterFullRun ==
    /\ banner =>
          /\ pc = "done"
          /\ idx = Len(plan) + 1
          /\ lastError = <<>>
          /\ ~ledgerError
          /\ AllIds \subseteq CompletedIds
    /\ pc \in {"aborted", "crashed"} => ~banner

\* a resumed run that retried a step, committed the rest of the plan and
\* printed the final line
C21_Witness ==
    /\ banner
    /\ runNo >= 2
    /\ ledgerAtStart # {}
    /\ anyFailure
    /\ Len(attempted) >= 1

\* C22: a chunk whose id is in the ledger (in memory or in the file), and
\* which the loop therefore skips, is a chunk that was fully processed; two
\* chunks of the plan never share an id.
C22_SkippedOnlyIfProcessed ==
    \A i \in DOMAIN plan : Id(i) \in FileIds \cup CompletedIds => i \in processed

\* the ids of the monthly plan are pairwise distinct
C22_MonthlyIdsDistinct ==
    script = "copernicus" =>
        /\ \A i, j \in DOMAIN plan : i # j => Id(i) # Id(j)
        /\ C22_SkippedOnlyIfProcessed

\* so are the ids of every sequence the generator yields
C22_YieldedIdsDistinct ==
    \A i, j \in DOMAIN yielded : i # j => ChunkName(yielded[i]) # ChunkName(yielded[j])

=============================================================================
